---- MODULE Spec2Model ----
(***************************************************************************)
(* A model of api/api.py: the upload-sample and generate-audio handlers of *)
(* the audio generation API, their file system effects and the responses   *)
(* they deliver.                                                           *)
(*                                                                         *)
(* Strings are sequences of one-character strings, so that the f-strings,  *)
(* split('.'), endswith('.wav') and re.sub of the source are computed.     *)
(* Both handlers are "async def": a handler runs without interruption      *)
(* between two awaits, and the only await of each is the read of the       *)
(* upload body.  The FileResponse a handler returns names a path; the file *)
(* is read when the response is sent, after the handler has returned.      *)
(***************************************************************************)
EXTENDS Naturals, Integers, Sequences, FiniteSets, TLC

VARIABLES
    files,      \* the directory entries: resolved path -> inode number
    inodes,     \* inode number -> the bytes of the file
    req,        \* per task slot: the request in flight and its handler's locals
                \* (id numbers the requests; after is the id of the request
                \* that had completed last when this one was accepted)
    last,       \* the request that completed last, with its response
    started,    \* number of requests accepted so far
    arg,        \* input of the pure function under check (SanSpec, EmoSpec)
    out         \* its result

vars == <<files, inodes, req, last, started, arg, out>>

----------------------------------------------------------------------------
(* Bounds *)

MaxRequests == 2
MaxLen == 3

----------------------------------------------------------------------------
(* Characters and strings *)

Lower == {"a","b","c","d","e","f","g","h","i","j","k","l","m",
          "n","o","p","q","r","s","t","u","v","w","x","y","z"}
Upper == {"A","B","C","D","E","F","G","H","I","J","K","L","M",
          "N","O","P","Q","R","S","T","U","V","W","X","Y","Z"}
Digit == {"0","1","2","3","4","5","6","7","8","9"}

\* The character class [a-zA-Z0-9_-] of sanitize_filename's pattern.
SafeChar == Lower \cup Upper \cup Digit \cup {"_", "-"}

\* The pattern without the '-': r'[^a-zA-Z0-9_]'.
sanitize_no_dash(filename) ==
    [k \in 1..Len(filename) |->
        IF filename[k] \in Lower \cup Upper \cup Digit \cup {"_"} THEN filename[k] ELSE "_"]

\* re.sub(r'[^a-zA-Z0-9_-]', '_', filename): every character that the
\* negated class matches is replaced by '_', the others are kept.
sanitize_filename(filename) ==
    [k \in 1..Len(filename) |->
        IF filename[k] \in SafeChar THEN filename[k] ELSE "_"]

OUTPUT_DIR ==
    <<"/","d","a","t","a","/","g","e","n","e","r","a","t","e","d","_","a","u","d","i","o">>
SAMPLES_DIR == <<"/","d","a","t","a","/","s","a","m","p","l","e","s">>

DotWav == <<".","w","a","v">>

\* str.endswith
EndsWith(s, suffix) ==
    /\ Len(s) >= Len(suffix)
    /\ SubSeq(s, Len(s) - Len(suffix) + 1, Len(s)) = suffix

\* str.split(sep) for a one-character separator: the list of the pieces.
RECURSIVE SplitFrom(_, _, _, _)
SplitFrom(s, sep, k, piece) ==
    IF k > Len(s) THEN <<piece>>
    ELSE IF s[k] = sep THEN <<piece>> \o SplitFrom(s, sep, k + 1, <<>>)
    ELSE SplitFrom(s, sep, k + 1, Append(piece, s[k]))

Split(s, sep) == SplitFrom(s, sep, 1, <<>>)

\* lst[-1]
Last(lst) == lst[Len(lst)]

----------------------------------------------------------------------------
(* The file system: directories, path resolution, inodes *)

DataDir == << <<"d","a","t","a">> >>
OutputDirPath == Append(DataDir, <<"g","e","n","e","r","a","t","e","d","_","a","u","d","i","o">>)
SamplesDirPath == Append(DataDir, <<"s","a","m","p","l","e","s">>)

\* The directories that exist: /, /data and the two that os.makedirs made.
\* No handler creates or removes a directory.
Dirs == {<<>>, DataDir, OutputDirPath, SamplesDirPath}

\* The result of a failed resolution (the root is never a file).
NoPath == <<>>

Parent(dir) == IF dir = <<>> THEN <<>> ELSE SubSeq(dir, 1, Len(dir) - 1)

\* Path resolution as the kernel does it for an absolute path: "" and "."
\* stay, ".." goes up, any other component must be an existing directory;
\* the last component names the file.
RECURSIVE Walk(_, _)
Walk(dir, comps) ==
    LET c == Head(comps) IN
    IF Len(comps) = 1 THEN
        IF c \in {<<>>, <<".">>, <<".", ".">>} \/ Append(dir, c) \in Dirs
        THEN NoPath
        ELSE Append(dir, c)
    ELSE IF c \in {<<>>, <<".">>} THEN Walk(dir, Tail(comps))
    ELSE IF c = <<".", ".">> THEN Walk(Parent(dir), Tail(comps))
    ELSE IF Append(dir, c) \in Dirs THEN Walk(Append(dir, c), Tail(comps))
    ELSE NoPath

Resolve(path) == Walk(<<>>, Split(path, "/"))

InDir(p, dir) == p # NoPath /\ Parent(p) = dir

FS == [files |-> files, inodes |-> inodes]

Put(f, k, v) == [x \in (DOMAIN f) \cup {k} |-> IF x = k THEN v ELSE f[x]]
Del(f, k) == [x \in (DOMAIN f) \ {k} |-> f[x]]

\* A new inode number (an inode lives while a name or a descriptor is on it).
FreshIno(fs) ==
    CHOOSE n \in 1..(Cardinality(DOMAIN fs.inodes) + 1) : n \notin DOMAIN fs.inodes

\* The file system calls below take the resolved path p of their argument:
\* no handler changes a directory, so a path resolves the same way at every
\* call and each handler step resolves it once.

\* os.path.exists
Exists(fs, p) == p \in DOMAIN fs.files

\* The bytes of the file at p (<<>> when there is none).
Content(fs, p) == IF Exists(fs, p) THEN fs.inodes[fs.files[p]] ELSE <<>>

\* open(p, "wb"): creates the file or truncates it; fails when the path
\* does not resolve.  The result carries the inode the descriptor is on.
OpenWb(fs, p) ==
    IF p = NoPath THEN [ok |-> FALSE, fs |-> fs, ino |-> 0]
    ELSE IF p \in DOMAIN fs.files THEN
        [ok |-> TRUE, ino |-> fs.files[p],
         fs |-> [fs EXCEPT !.inodes[fs.files[p]] = <<>>]]
    ELSE
        LET n == FreshIno(fs) IN
        [ok |-> TRUE, ino |-> n,
         fs |-> [files |-> Put(fs.files, p, n), inodes |-> Put(fs.inodes, n, <<>>)]]

\* write(data) on a descriptor opened "wb" and not written before: the
\* bytes go to offset 0 of the inode, whatever path names it now, and
\* bytes beyond them that another descriptor wrote stay.
WriteFd(fs, ino, data) ==
    LET old == fs.inodes[ino]
        new == data \o SubSeq(old, Len(data) + 1, Len(old))
    IN [fs EXCEPT !.inodes[ino] = new]

\* os.rename(s, d): s must exist; d is replaced.
Rename(fs, s, d) ==
    IF s \notin DOMAIN fs.files \/ d = NoPath THEN [ok |-> FALSE, fs |-> fs]
    ELSE IF s = d THEN [ok |-> TRUE, fs |-> fs]
    ELSE [ok |-> TRUE,
          fs |-> [fs EXCEPT !.files = Put(Del(fs.files, s), d, fs.files[s])]]

\* os.remove(p)
Remove(fs, p) ==
    IF p \notin DOMAIN fs.files THEN [ok |-> FALSE, fs |-> fs]
    ELSE [ok |-> TRUE, fs |-> [fs EXCEPT !.files = Del(fs.files, p)]]

\* Inodes that no directory entry and no open descriptor refers to are gone.
Collect(fs, held) ==
    LET live == {fs.files[p] : p \in DOMAIN fs.files} \cup held IN
    [fs EXCEPT !.inodes = [n \in live |-> fs.inodes[n]]]

----------------------------------------------------------------------------
(* Audio *)

\* The upload bodies a client may send: 1 is a WAV that is already 16 kHz,
\* mono, 16-bit; 2 is decodable audio of another shape (and twice as long);
\* 3 is not audio at all.
Bodies == {1, 2, 3}

BodyShape(b) ==
    CASE b = 1 -> [rate |-> 16000, ch |-> 1, sw |-> 2, len |-> 1]
      [] b = 2 -> [rate |-> 44100, ch |-> 2, sw |-> 2, len |-> 2]
      [] OTHER -> [rate |-> 0, ch |-> 0, sw |-> 0, len |-> 1]

\* The bytes of body b, each tagged with where it comes from.
BodyBytes(b) ==
    [n \in 1..BodyShape(b).len |->
        [k |-> "raw", b |-> b, pos |-> n,
         rate |-> BodyShape(b).rate, ch |-> BodyShape(b).ch, sw |-> BodyShape(b).sw]]

\* Whether a decoder (pydub's from_file, torchaudio.load) accepts the bytes.
Decodable(data) == data # <<>> /\ data[1].rate > 0

\* set_frame_rate(16000).set_channels(1).set_sample_width(2)
Normalized(data) ==
    [n \in 1..Len(data) |->
        [data[n] EXCEPT !.k = "pcm", !.rate = 16000, !.ch = 1, !.sw = 2]]

\* The CanonicalAudio shape: 16 kHz, 1 channel, 16-bit samples.
IsCanonical(data) ==
    /\ data # <<>>
    /\ \A n \in 1..Len(data) : data[n].rate = 16000 /\ data[n].ch = 1 /\ data[n].sw = 2

\* convert_to_wav(input_path, output_path): decode the input, reshape it,
\* export it to output_path (opened for writing only after the decoding).
convert_to_wav(fs, input_path, output_path) ==
    IF ~Exists(fs, input_path) THEN [ok |-> FALSE, fs |-> fs, err |-> "FileNotFoundError"]
    ELSE IF ~Decodable(Content(fs, input_path))
    THEN [ok |-> FALSE, fs |-> fs, err |-> "CouldntDecodeError"]
    ELSE
        LET audio == Normalized(Content(fs, input_path))
            o == OpenWb(fs, output_path)
        IN IF ~o.ok THEN [ok |-> FALSE, fs |-> fs, err |-> "OSError"]
           ELSE [ok |-> TRUE, fs |-> WriteFd(o.fs, o.ino, audio), err |-> ""]

\* The waveform that the engine generates for request number id.
Waveform(id) ==
    << [k |-> "gen", b |-> id, pos |-> 1, rate |-> 0, ch |-> 0, sw |-> 0] >>

----------------------------------------------------------------------------
(* Options, exceptions, responses *)

None == <<>>
Some(v) == <<v>>
IsSome(o) == o # <<>>
Val(o) == o[1]

\* bool(sample_name): None and "" are falsy.
Truthy(o) == IsSome(o) /\ Val(o) # <<>>

NoExc == [type |-> "", status |-> 0, text |-> ""]
HTTPException(status, detail) == [type |-> "HTTPException", status |-> status, text |-> detail]
Error(type) == [type |-> type, status |-> 0, text |-> type]

----------------------------------------------------------------------------
(* Emotion parameters *)

EmotionFields ==
    {"happiness", "sadness", "disgust", "fear", "surprise", "anger", "other", "neutral"}

\* Every default 0.0.
EmotionDefaultZero(f) == 0

\* The defaults of generate_audio's emotion parameters (0.0 and 1.0).
EmotionDefault(f) == IF f = "neutral" THEN 1 ELSE 0

\* A query is a function from the fields the client supplied to their values;
\* a parameter the client omitted takes its default.
Param(query, f) == IF f \in DOMAIN query THEN query[f] ELSE EmotionDefault(f)

\* emotion_values = [happiness, sadness, disgust, fear, surprise, anger, other, neutral]
emotion_values(query) ==
    << Param(query, "happiness"), Param(query, "sadness"), Param(query, "disgust"),
       Param(query, "fear"), Param(query, "surprise"), Param(query, "anger"),
       Param(query, "other"), Param(query, "neutral") >>

\* make_cond_dict(text=..., speaker=..., language="en-us", emotion=...)
make_cond_dict(speaker, query) ==
    [speaker |-> speaker, language |-> "en-us", emotion |-> emotion_values(query)]

NoCond == [speaker |-> <<>>, language |-> "", emotion |-> <<>>]

----------------------------------------------------------------------------
(* Requests *)

Slots == {1, 2}

VoiceName == <<"v","o","i","c","e"," ","1","!">>
VoiceKey == <<"v","o","i","c","e","_","1","_">>

\* The sample names that clients send.
Names == {VoiceName, VoiceKey, <<>>}

\* The filenames that clients give their uploads.
UploadFilenames == {<<"a",".","m","p","3">>, <<"a",".","w","a","v">>, <<"a">>}

GenFilenames ==
    {<<"a",".","m","p","3">>, <<"a",".","w","a","v">>,
     <<"o","u","t","p","u","t",".","w","a","v">>,
     <<".",".","/","s","a","m","p","l","e","s","/">> \o VoiceKey \o DotWav}

\* The filenames of the inline files that come together with a sample name.
BothFilenames ==
    {<<"a",".","m","p","3">>, <<"c","o","n","v","e","r","t","e","d",".","w","a","v">>}

EmptyQuery == [f \in {} |-> 0]

\* The emotion fields that a generate request of the main specification sends.
Queries == {EmptyQuery, [f \in {"happiness", "neutral"} |-> 2]}

\* Where the engine fails in a request, if it does.
Faults == {"none", "generate"}

Idle ==
    [op |-> "none", pc |-> "idle", id |-> 0, after |-> 0, sample_name |-> None, filename |-> None,
     body |-> 0, query |-> EmptyQuery,
     temp_path |-> <<>>, output_path |-> <<>>, fd |-> 0,
     input_audio_path |-> <<>>, speaker |-> <<>>, cond |-> NoCond, calls |-> <<>>,
     exc |-> NoExc, status |-> 0, detail |-> "", resp_path |-> <<>>, sent |-> <<>>]

\* A new request takes the first free slot (slots only name the tasks).
Free(i) == req[i].pc = "idle" /\ \A j \in Slots : j < i => req[j].pc # "idle"

Held(r) == {r[i].fd : i \in Slots} \ {0}

\* The step's result: the file system fs and slot i's record r.  A request
\* that is done leaves its slot and becomes the last completed one.
Commit(fs, i, r) ==
    LET nreq == [req EXCEPT ![i] = IF r.pc = "done" THEN Idle ELSE r]
        nfs == Collect(fs, Held(nreq))
    IN /\ req' = nreq
       /\ last' = IF r.pc = "done" THEN r ELSE last
       /\ files' = nfs.files
       /\ inodes' = nfs.inodes

\* The response of a handler that returned normally (not a FileResponse).
Returned(r) == [r EXCEPT !.pc = "done", !.status = 200, !.fd = 0]

\* "except Exception as e: raise HTTPException(status_code=500, detail=str(e))":
\* the clause catches every exception of the try body, an HTTPException
\* raised there included, and the client gets the 500.
ExceptClause(r, e) ==
    [r EXCEPT !.pc = "done", !.exc = e, !.status = 500, !.detail = e.text, !.fd = 0]

----------------------------------------------------------------------------
(* upload_sample *)

\* temp_path = f"{SAMPLES_DIR}/{sample_name}.{audio_file.filename.split('.')[-1]}"
UploadTempPath(name, filename) ==
    SAMPLES_DIR \o <<"/">> \o name \o <<".">> \o Last(Split(filename, "."))

\* output_path = f"{SAMPLES_DIR}/{sample_name}.wav"
UploadOutputPath(name) == SAMPLES_DIR \o <<"/">> \o name \o DotWav

\* The handler up to its await: the names are computed and the staging file
\* is opened for writing.
UploadStart(i, sample_name, filename, body) ==
    /\ Free(i)
    /\ started < MaxRequests
    /\ LET name == sanitize_filename(sample_name)
           r == [Idle EXCEPT !.op = "upload", !.id = started + 1, !.after = last.id,
                             !.sample_name = Some(sample_name),
                             !.filename = Some(filename), !.body = body,
                             !.temp_path = UploadTempPath(name, filename),
                             !.output_path = UploadOutputPath(name)]
           o == OpenWb(FS, Resolve(r.temp_path))
       IN IF o.ok
          THEN Commit(o.fs, i, [r EXCEPT !.pc = "await", !.fd = o.ino])
          ELSE Commit(FS, i, ExceptClause(r, Error("OSError")))
    /\ started' = started + 1
    /\ UNCHANGED <<arg, out>>

\* The handler from the await on: the body is written, then converted or
\* renamed into the store.
UploadResume(i) ==
    /\ req[i].op = "upload"
    /\ req[i].pc = "await"
    /\ LET r == req[i]
           temp == Resolve(r.temp_path)
           output == Resolve(r.output_path)
           w == WriteFd(FS, r.fd, BodyBytes(r.body))
       IN IF ~EndsWith(r.temp_path, DotWav)
          THEN LET c == convert_to_wav(w, temp, output)
                   d == Remove(c.fs, temp)
               IN IF ~c.ok THEN Commit(c.fs, i, ExceptClause(r, Error(c.err)))
                  ELSE IF ~d.ok THEN Commit(d.fs, i, ExceptClause(r, Error("FileNotFoundError")))
                  ELSE Commit(d.fs, i, Returned(r))
          ELSE LET m == Rename(w, temp, output)
               IN IF ~m.ok THEN Commit(m.fs, i, ExceptClause(r, Error("FileNotFoundError")))
                  ELSE Commit(m.fs, i, Returned(r))
    /\ UNCHANGED <<started, arg, out>>

----------------------------------------------------------------------------
(* generate_audio *)

\* The lookup without the sanitizing of the name.
SamplePathRaw(sample_name) == SAMPLES_DIR \o <<"/">> \o sample_name \o DotWav

\* input_audio_path = f"{SAMPLES_DIR}/{sample_name}.wav", sample_name sanitized
SamplePath(sample_name) ==
    SAMPLES_DIR \o <<"/">> \o sanitize_filename(sample_name) \o DotWav

\* temp_path = f"{OUTPUT_DIR}/{audio_file.filename}"
GenTempPath(filename) == OUTPUT_DIR \o <<"/">> \o filename

\* output_path = f"{OUTPUT_DIR}/converted.wav"
ConvertedPath == OUTPUT_DIR \o <<"/","c","o","n","v","e","r","t","e","d">> \o DotWav

\* Another name for the output file.
other_audio_path == OUTPUT_DIR \o <<"/","o","t","h","e","r">> \o DotWav

\* output_audio_path = f"{OUTPUT_DIR}/output.wav"
output_audio_path == OUTPUT_DIR \o <<"/","o","u","t","p","u","t">> \o DotWav

\* The file that output_audio_path names.
OutputSlot == Resolve(output_audio_path)

\* The inline file wins over the name: "if audio_file:" tested first.
UploadFirst(sample_name, audio_file) == Truthy(sample_name) /\ ~IsSome(audio_file)

\* "if sample_name:" (line 99) comes before "elif audio_file:" (line 104):
\* with a non-empty name the sample branch runs, whatever audio_file is.
SampleFirst(sample_name, audio_file) == Truthy(sample_name)

\* Lines 122-153, run without suspension: load the audio, embed the speaker,
\* build the conditioning, generate, save to the output path and return the
\* FileResponse that names it.  r.input_audio_path is set.
Pipeline(fs, i, r, fault) ==
    LET input == Resolve(r.input_audio_path)
        data == Content(fs, input)
        loaded == [r EXCEPT !.calls = <<"load">>]
        embedded == [loaded EXCEPT !.calls = @ \o <<"embed">>]
        built == [embedded EXCEPT !.speaker = data,
                                  !.cond = make_cond_dict(data, r.query),
                                  !.calls = @ \o <<"prepare", "generate">>]
        decoded == [built EXCEPT !.calls = @ \o <<"decode", "save">>]
        o == OpenWb(fs, OutputSlot)
    IN
    IF ~Exists(fs, input) \/ ~Decodable(data)
    THEN Commit(fs, i, ExceptClause(loaded, Error("LoadError")))
    ELSE IF fault = "generate"
    THEN Commit(fs, i, ExceptClause(built, Error("EngineError")))
    ELSE IF ~o.ok
    THEN Commit(fs, i, ExceptClause(decoded, Error("OSError")))
    ELSE Commit(WriteFd(o.fs, o.ino, Waveform(r.id)), i,
                [decoded EXCEPT !.pc = "send", !.fd = 0,
                                !.resp_path = output_audio_path])

\* The handler up to its first await, or to its end when it has none: with
\* a sample name the whole handler runs; with an uploaded file only, the
\* scratch file is opened and the body awaited.
GenerateStart(i, sample_name, filename, body, query, fault) ==
    /\ Free(i)
    /\ started < MaxRequests
    /\ LET r == [Idle EXCEPT !.op = "generate", !.id = started + 1, !.after = last.id,
                             !.sample_name = sample_name,
                             !.filename = filename, !.body = body, !.query = query]
       IN IF SampleFirst(sample_name, filename)
          THEN LET named == [r EXCEPT !.input_audio_path = SamplePath(Val(sample_name))]
               IN IF ~Exists(FS, Resolve(named.input_audio_path))
                  THEN Commit(FS, i, ExceptClause(named, HTTPException(404, "Sample not found")))
                  ELSE Pipeline(FS, i, named, fault)
          ELSE IF IsSome(filename)
          THEN LET inline == [r EXCEPT !.temp_path = GenTempPath(Val(filename)),
                                       !.output_path = ConvertedPath]
                   o == OpenWb(FS, Resolve(inline.temp_path))
               IN IF o.ok
                  THEN Commit(o.fs, i, [inline EXCEPT !.pc = "await", !.fd = o.ino])
                  ELSE Commit(FS, i, ExceptClause(inline, Error("OSError")))
          ELSE Commit(FS, i, ExceptClause(r,
                   HTTPException(400, "Either sample_name or audio_file must be provided")))
    /\ started' = started + 1
    /\ UNCHANGED <<arg, out>>

\* The handler from the await on: the body is written to the scratch file,
\* converted or renamed to converted.wav, and the rest of the handler runs.
GenerateResume(i, fault) ==
    /\ req[i].op = "generate"
    /\ req[i].pc = "await"
    /\ LET r == [req[i] EXCEPT !.input_audio_path = req[i].output_path]
           temp == Resolve(r.temp_path)
           output == Resolve(r.output_path)
           w == WriteFd(FS, r.fd, BodyBytes(r.body))
       IN IF ~EndsWith(r.temp_path, DotWav)
          THEN LET c == convert_to_wav(w, temp, output)
                   d == Remove(c.fs, temp)
               IN IF ~c.ok THEN Commit(c.fs, i, ExceptClause(req[i], Error(c.err)))
                  ELSE IF ~d.ok THEN Commit(d.fs, i, ExceptClause(req[i], Error("FileNotFoundError")))
                  ELSE Pipeline(d.fs, i, r, fault)
          ELSE LET m == Rename(w, temp, output)
               IN IF ~m.ok THEN Commit(m.fs, i, ExceptClause(req[i], Error("FileNotFoundError")))
                  ELSE Pipeline(m.fs, i, r, fault)
    /\ UNCHANGED <<started, arg, out>>

\* The FileResponse is sent: the file at its path is read now.
SendResponse(i) ==
    /\ req[i].pc = "send"
    /\ IF Exists(FS, Resolve(req[i].resp_path))
       THEN Commit(FS, i, [req[i] EXCEPT !.pc = "done", !.status = 200,
                                         !.sent = Content(FS, Resolve(req[i].resp_path))])
       ELSE Commit(FS, i, [req[i] EXCEPT !.pc = "done", !.status = 500,
                                         !.exc = Error("RuntimeError"),
                                         !.detail = "RuntimeError"])
    /\ UNCHANGED <<started, arg, out>>

----------------------------------------------------------------------------
(* The specification of the service *)

NoArg == <<>>

Init ==
    /\ files = [p \in {} |-> 0]
    /\ inodes = [n \in {} |-> <<>>]
    /\ req = [i \in Slots |-> Idle]
    /\ last = Idle
    /\ started = 0
    /\ arg = NoArg
    /\ out = NoArg

Next ==
    \/ \E i \in Slots, n \in Names, f \in UploadFilenames, b \in Bodies :
           UploadStart(i, n, f, b)
    \/ \E i \in Slots : UploadResume(i)
    \/ \E i \in Slots, q \in Queries, x \in Faults :
           \/ \E n \in Names : GenerateStart(i, Some(n), None, 0, q, x)
           \/ \E n \in Names, f \in BothFilenames :
                  GenerateStart(i, Some(n), Some(f), 1, q, x)
           \/ \E f \in GenFilenames, b \in Bodies :
                  GenerateStart(i, None, Some(f), b, q, x)
           \/ GenerateStart(i, None, None, 0, q, x)
    \/ \E i \in Slots, x \in Faults : GenerateResume(i, x)
    \/ \E i \in Slots : SendResponse(i)

Spec == Init /\ [][Next]_vars

----------------------------------------------------------------------------
(* sanitize_filename alone: applied to any short string, and to its result *)

\* One character of each kind the pattern tells apart, and the separators.
Chars == {"a", "Z", "0", "_", "-", " ", "!", ".", "/"}

Strings == UNION {[1..n -> Chars] : n \in 0..MaxLen}

SanInit ==
    /\ files = [p \in {} |-> 0]
    /\ inodes = [n \in {} |-> <<>>]
    /\ req = [i \in Slots |-> Idle]
    /\ last = Idle
    /\ started = 0
    /\ arg \in Strings
    /\ out = <<>>

\* out collects sanitize(arg), then sanitize(sanitize(arg)).
SanApply ==
    /\ Len(out) < 2
    /\ out' = Append(out, sanitize_filename(IF out = <<>> THEN arg ELSE out[1]))
    /\ UNCHANGED <<files, inodes, req, last, started, arg>>

SanSpec == SanInit /\ [][SanApply]_vars

----------------------------------------------------------------------------
(* The emotion parameters alone: any subset of the fields supplied *)

EmoVals == {0, 2}

EmoQueries == UNION {[fs -> EmoVals] : fs \in SUBSET EmotionFields}

EmoInit ==
    /\ files = [p \in {} |-> 0]
    /\ inodes = [n \in {} |-> <<>>]
    /\ req = [i \in Slots |-> Idle]
    /\ last = Idle
    /\ started = 0
    /\ arg \in EmoQueries
    /\ out = <<>>

\* out holds the conditioning record built for the query.
EmoBuild ==
    /\ out = <<>>
    /\ out' = << make_cond_dict(<<>>, arg) >>
    /\ UNCHANGED <<files, inodes, req, last, started, arg>>

EmoSpec == EmoInit /\ [][EmoBuild]_vars

----------------------------------------------------------------------------
(* upload_sample alone, on names and filenames that try to leave the       *)
(* samples directory.  With upload requests only, C15_UploadConfined below *)
(* holds of ConfSpec; a generate request is needed to break it.            *)

\* "../generated_audio/output"
EscapeName ==
    <<".",".","/","g","e","n","e","r","a","t","e","d","_","a","u","d","i","o","/","o","u","t","p","u","t">>

ConfNames == {VoiceName, <<>>, <<".",".">>, EscapeName}

\* Upload filenames with '/', '..', several dots, no dot, a '/' after the
\* last dot, and nothing after the last dot.
ConfFilenames ==
    {<<"a",".","m","p","3">>,
     <<"a",".","w","a","v">>,
     <<".",".","/","g","e","n","e","r","a","t","e","d","_","a","u","d","i","o","/","o","u","t","p","u","t",".","w","a","v">>,
     <<"a",".","b",".","m","p","3">>,
     <<"a",".","/","x">>,
     <<"/","e","t","c","/","p","a","s","s","w","d">>,
     <<"a",".">>}

ConfBodies == {1, 3}

\* The server starts on a disk where an earlier run has left a generated
\* output.wav in the scratch directory.
ConfInit ==
    /\ files = (OutputSlot :> 1)
    /\ inodes = (1 :> Waveform(0))
    /\ req = [i \in Slots |-> Idle]
    /\ last = Idle
    /\ started = 0
    /\ arg = NoArg
    /\ out = NoArg

ConfNext ==
    \/ \E i \in Slots, n \in ConfNames, f \in ConfFilenames, b \in ConfBodies :
           UploadStart(i, n, f, b)
    \/ \E i \in Slots : UploadResume(i)

ConfSpec == ConfInit /\ [][ConfNext]_vars

----------------------------------------------------------------------------
(* Claims *)

\* A request completed in this step, and is now the last completed one.
Completes == last'.id # last.id

\* The request that completes in this step was accepted in this step: its
\* handler ran from start to end on the file system of the current state.
RunsWhole == Completes /\ last'.id = started' /\ started' # started

\* The file that the store holds for sample name n.
StoredSample(n) == Resolve(SAMPLES_DIR \o <<"/">> \o sanitize_filename(n) \o DotWav)

\* C1: a generate-audio request whose sample_name is non-empty and whose
\* sanitized name has no file <SAMPLES_DIR>/<sanitized>.wav in the store gets
\* the not-found response (status 404), not the generic 500.
C1_MissingSampleIs404 ==
    [][(/\ RunsWhole
        /\ last'.op = "generate"
        /\ IsSome(last'.sample_name)
        /\ Val(last'.sample_name) # <<>>
        /\ StoredSample(Val(last'.sample_name)) \notin DOMAIN files)
       => last'.status = 404]_vars

\* C2: a generate-audio request that supplies neither a sample_name nor an
\* audio_file gets the bad-request response (status 400), and no engine call
\* is made for it.
C2_NoSourceIs400 ==
    [][(/\ Completes
        /\ last'.op = "generate"
        /\ last'.sample_name = None
        /\ last'.filename = None)
       => (last'.status = 400 /\ last'.calls = <<>>)]_vars

\* The requests of the state: those in flight and the last completed one.
Requests == {req[i] : i \in Slots} \cup {last}

\* C3: after any sequence of requests (none in flight), every file that the
\* store holds for a sample name is in the canonical format (16 kHz, 1
\* channel, 16-bit), and so is every audio that was handed to the speaker
\* embedding.
C3_CanonicalAudio ==
    /\ \A r \in Requests : r.speaker # <<>> => IsCanonical(r.speaker)
    /\ (\A i \in Slots : req[i].pc = "idle") =>
           \A n \in Names :
               StoredSample(n) \in DOMAIN files =>
                   IsCanonical(inodes[files[StoredSample(n)]])

Quiet == \A i \in Slots : req[i].pc = "idle"

\* The request that is accepted in this step, as the step leaves it.
Accepted ==
    IF last'.id = started' THEN last' ELSE req'[CHOOSE i \in Slots : req'[i].id = started']

\* A generate-audio request with sample name s is accepted right after an
\* upload-sample request under the same name s has succeeded.
RoundTrip(s) ==
    /\ started' # started
    /\ Quiet
    /\ last.op = "upload" /\ last.status = 200 /\ last.sample_name = Some(s)
    /\ Accepted.op = "generate" /\ Accepted.sample_name = Some(s)

\* The request resolved the file that the upload stored, and did not end in
\* the not-found or the missing-source failure.
Resolved(r, upload) ==
    /\ r.exc.type # "HTTPException"
    /\ r.input_audio_path = upload.output_path
    /\ Resolve(r.input_audio_path) = StoredSample(Val(upload.sample_name))
    /\ r.speaker # <<>> => r.speaker = inodes[files[StoredSample(Val(upload.sample_name))]]

KeyOf(r) == sanitize_filename(Val(r.sample_name))

\* The names of the files of the samples directory that belong to key k:
\* k followed by '.' and an extension.
FilesOfKey(fs, k) ==
    {Last(p) : p \in {q \in DOMAIN fs : InDir(q, SamplesDirPath) /\ Split(Last(q), ".")[1] = k}}

\* The second of two upload requests under one key completes in this step,
\* having been accepted after the first one had completed.
SecondUpload ==
    /\ Completes
    /\ last'.op = "upload" /\ last.op = "upload"
    /\ last'.after = last.id
    /\ KeyOf(last') = KeyOf(last)

\* C5: when two upload-sample requests whose names sanitize to the same key
\* are executed one after the other, the samples directory afterwards holds
\* exactly one file for that key, <key>.wav, whose content comes from the
\* second upload only; no staging file for the key remains.
C5_OverwriteLeavesOneFile ==
    [][SecondUpload =>
        /\ FilesOfKey(files', KeyOf(last')) = {KeyOf(last') \o DotWav}
        /\ LET data == inodes'[files'[Resolve(last'.output_path)]] IN
           /\ data # <<>>
           /\ \A n \in 1..Len(data) : data[n].b = last'.body]_vars

\* C6 (under SanSpec): sanitize_filename returns, for every string s, a
\* string of the same length in which each character of [A-Za-z0-9_-] is
\* kept and every other character is '_'; sanitizing the result again
\* changes nothing; and the result of a non-empty s is a non-empty string
\* over [A-Za-z0-9_-].
C6_SanitizeTotalIdempotent ==
    /\ Len(out) >= 1 =>
        /\ Len(out[1]) = Len(arg)
        /\ \A k \in 1..Len(arg) :
               out[1][k] = IF arg[k] \in Lower \cup Upper \cup Digit \cup {"_", "-"}
                           THEN arg[k] ELSE "_"
        /\ arg # <<>> =>
               /\ out[1] # <<>>
               /\ \A k \in 1..Len(out[1]) :
                      out[1][k] \in Lower \cup Upper \cup Digit \cup {"_", "-"}
    /\ Len(out) = 2 => out[2] = out[1]

\* "a-/" has been sanitized to "a-_", and that again to "a-_".
C6_Witness ==
    /\ arg = <<"a", "-", "/">>
    /\ out = << <<"a", "-", "_">>, <<"a", "-", "_">> >>

\* The fixed order of the emotion vector and the default of each field.
EmotionOrder ==
    <<"happiness", "sadness", "disgust", "fear", "surprise", "anger", "other", "neutral">>

\* C7 (under EmoSpec): the emotion vector of the conditioning record has
\* exactly 8 elements in the order happiness, sadness, disgust, fear,
\* surprise, anger, other, neutral; each is the value the client supplied,
\* unchanged, or the field's default when omitted (0, and 1 for neutral).
C7_EmotionVector ==
    Len(out) = 1 =>
        /\ Len(out[1].emotion) = 8
        /\ \A k \in 1..8 :
               out[1].emotion[k] =
                   IF EmotionOrder[k] \in DOMAIN arg THEN arg[EmotionOrder[k]]
                   ELSE IF k = 8 THEN 1 ELSE 0

\* A request with no emotion field has produced [0,0,0,0,0,0,0,1].
C7_Witness ==
    /\ DOMAIN arg = {}
    /\ Len(out) = 1
    /\ out[1].emotion = <<0, 0, 0, 0, 0, 0, 0, 1>>

\* The steps of generate_audio in order: load and embed (step 2), prepare
\* the conditioning (step 3), generate and decode (step 4), save (step 5).
StepOrder == <<"load", "embed", "prepare", "generate", "decode", "save">>

IsPrefix(a, b) == Len(a) <= Len(b) /\ SubSeq(b, 1, Len(a)) = a

\* What the output slot <OUTPUT_DIR>/output.wav holds: <<>> when there is no
\* such file, else its bytes.
SlotView(f, n) ==
    LET slot == Append(OutputDirPath, <<"o","u","t","p","u","t",".","w","a","v">>) IN
    IF slot \in DOMAIN f THEN <<n[f[slot]]>> ELSE <<>>

\* Request slot i's handler saved its waveform in this step.
Persists(i) == req'[i].pc = "send" /\ req[i].pc # "send"

\* C8: the steps of a generate-audio request run in order; a failure ends
\* the request (no step follows it) and is answered by a 500 that carries the
\* exception's message; and the output slot is written only by the save of
\* a request whose earlier steps all succeeded, so a request that fails
\* before leaves the slot as it was.
C8_OutputWrittenOnlyOnSuccess ==
    [][/\ \A r \in Requests : r.op = "generate" => IsPrefix(r.calls, StepOrder)
       /\ \A i \in Slots : req[i].exc = NoExc
       /\ (Completes /\ last'.op = "generate" /\ last'.exc # NoExc) =>
              (last'.status = 500 /\ last'.detail = last'.exc.text)
       /\ SlotView(files', inodes') # SlotView(files, inodes) =>
              \E i \in Slots : Persists(i) /\ req'[i].calls = StepOrder]_vars

\* Slot i's inline generate request got past the conversion of its upload
\* in this step; Resumed(i) is the request as the step leaves it.
Resumed(i) == IF req'[i].pc = "send" THEN req'[i] ELSE last'
Converts(i) ==
    /\ req[i].op = "generate" /\ req[i].pc = "await" /\ req'[i].pc # "await"
    /\ Resumed(i).calls # <<>>

\* C9: every generate-audio request saves to the one path
\* <OUTPUT_DIR>/output.wav and every inline upload is converted to the one
\* path <OUTPUT_DIR>/converted.wav, whatever other requests are in flight;
\* after the save output.wav holds the saving request's waveform, and after
\* the conversion converted.wav holds the audio that request embeds (the
\* last writer wins).
C9_SharedSlotLastWriterWins ==
    [][\A i \in Slots :
        /\ Persists(i) =>
            /\ req'[i].resp_path = OUTPUT_DIR \o <<"/","o","u","t","p","u","t",".","w","a","v">>
            /\ SlotView(files', inodes') = << Waveform(req'[i].id) >>
        /\ Converts(i) =>
            LET conv == Append(OutputDirPath, <<"c","o","n","v","e","r","t","e","d",".","w","a","v">>) IN
            /\ Resolve(Resumed(i).input_audio_path) = conv
            /\ conv \in DOMAIN files'
            /\ Resumed(i).speaker # <<>> =>
                   Resumed(i).speaker = inodes'[files'[conv]]]_vars

\* A request was sent, as its response, the waveform that was generated for
\* the other request.
C9_Witness ==
    /\ last.op = "generate" /\ last.status = 200
    /\ last.sent # <<>>
    /\ last.sent[1].k = "gen"
    /\ last.sent[1].b # last.id

\* The files of the samples directory with their bytes.
SampleStore(f, n) ==
    [p \in {q \in DOMAIN f : InDir(q, SamplesDirPath)} |-> n[f[p]]]

\* This step is a step of a generate-audio request.
GenerateStep ==
    \/ \E i \in Slots : req'[i] # req[i] /\ "generate" \in {req[i].op, req'[i].op}
    \/ RunsWhole /\ last'.op = "generate"

\* C10: a generate-audio request never changes the Sample Store: the files
\* of the samples directory and their contents are the same after each of
\* its steps as before.
C10_GenerateLeavesStore ==
    [][GenerateStep => SampleStore(files', inodes') = SampleStore(files, inodes)]_vars

\* A generate-audio request that supplies both a non-empty sample_name and
\* an audio_file is accepted in this step.
BothSupplied ==
    /\ started' # started
    /\ Accepted.op = "generate"
    /\ Truthy(Accepted.sample_name)
    /\ IsSome(Accepted.filename)

\* Every file but <OUTPUT_DIR>/output.wav is after the step what it was
\* before it, and so is every open file that is not the output file.
OnlySlotWritten ==
    /\ DOMAIN files' \ {OutputSlot} = DOMAIN files \ {OutputSlot}
    /\ \A p \in DOMAIN files \ {OutputSlot} : inodes'[files'[p]] = inodes[files[p]]
    /\ \A n \in Held(req) :
           (OutputSlot \notin DOMAIN files \/ files[OutputSlot] # n) => inodes'[n] = inodes[n]

\* C11: a generate-audio request that supplies both a non-empty sample_name
\* and an audio_file uses the named sample only: its handler runs to its end
\* without opening or awaiting the inline file, the audio it embeds is the
\* content of <SAMPLES_DIR>/<sanitize(sample_name)>.wav, no file but the
\* output slot changes (converted.wav and the scratch path of the inline
\* file included), and when the named sample is missing the request fails
\* with no engine call and no file written.
C11_SampleNameWins ==
    [][BothSupplied =>
        LET r == Accepted
            stored == StoredSample(Val(r.sample_name))
        IN /\ r.pc \in {"send", "done"}
           /\ r.temp_path = <<>> /\ r.fd = 0
           /\ r.input_audio_path = SAMPLES_DIR \o <<"/">> \o sanitize_filename(Val(r.sample_name)) \o DotWav
           /\ r.speaker # <<>> => (stored \in DOMAIN files /\ r.speaker = inodes[files[stored]])
           /\ OnlySlotWritten
           /\ r.pc = "send" => r.speaker # <<>>
           /\ stored \notin DOMAIN files =>
                  /\ r.pc = "done" /\ r.status >= 400 /\ r.calls = <<>>
                  /\ files' = files /\ inodes' = inodes]_vars

\* A request named "voice 1!" that also carried the inline file a.mp3 has
\* generated from the stored sample voice_1_.wav, and no a.mp3 and no
\* converted.wav is in the scratch directory.
C11_Witness ==
    \E i \in Slots :
        /\ req[i].op = "generate" /\ req[i].pc = "send"
        /\ req[i].sample_name = Some(VoiceName)
        /\ req[i].filename = Some(<<"a",".","m","p","3">>)
        /\ req[i].speaker # <<>>
        /\ req[i].speaker = inodes[files[Append(SamplesDirPath, VoiceKey \o DotWav)]]
        /\ Append(OutputDirPath, <<"a",".","m","p","3">>) \notin DOMAIN files
        /\ Append(OutputDirPath, <<"c","o","n","v","e","r","t","e","d",".","w","a","v">>) \notin DOMAIN files

\* The file name is <key>.wav with key a non-empty match of [A-Za-z0-9_-]+.
IsKeyWav(name) ==
    /\ EndsWith(name, DotWav)
    /\ Len(name) > Len(DotWav)
    /\ \A k \in 1..(Len(name) - Len(DotWav)) : name[k] \in Lower \cup Upper \cup Digit \cup {"_", "-"}

\* The staging files of the upload-sample requests in flight in r.
Staging(r) == {Resolve(r[i].temp_path) : i \in {j \in Slots : r[j].op = "upload" /\ r[j].pc = "await"}}

\* Every file of the samples directory is a <key>.wav or the staging file of
\* an upload that has not ended.
StoreLayout(f, r) ==
    \A p \in DOMAIN f : InDir(p, SamplesDirPath) => (IsKeyWav(Last(p)) \/ p \in Staging(r))

\* This step is a step of an upload-sample request.
UploadStep ==
    \/ \E i \in Slots : req'[i] # req[i] /\ "upload" \in {req[i].op, req'[i].op}
    \/ RunsWhole /\ last'.op = "upload"

\* C12: every step of an upload-sample request keeps the layout of the
\* Sample Store: when the request has ended, successfully or not, every
\* file of the samples directory is named <key>.wav with a non-empty key
\* over [A-Za-z0-9_-], and the staging file of the request is gone.
C12_StoreLayout ==
    [][(UploadStep /\ StoreLayout(files, req)) => StoreLayout(files', req')]_vars

\* The later of two upload-sample requests that share their staging path
\* (same key, same extension) completes in this step; the two were in flight
\* at once (the other one, last, completed after this one was accepted), and
\* both sent audio that decodes.
ConcurrentUploads ==
    /\ Completes
    /\ last'.op = "upload" /\ last.op = "upload"
    /\ last'.after # last.id
    /\ last'.temp_path = last.temp_path
    /\ Decodable(BodyBytes(last.body)) /\ Decodable(BodyBytes(last'.body))

\* What a completed upload of body b stores: the bytes as sent (a .wav
\* upload) or their conversion.
StoredForms(b) == {BodyBytes(b), Normalized(BodyBytes(b))}

\* C13: when two upload-sample requests under one key and one extension
\* interleave at the await of the upload body, both complete without a
\* server error and <key>.wav finally holds the complete content of exactly
\* one of the two uploads: no mixture of both, no empty file.
C13_ConcurrentUploadsOneWins ==
    [][ConcurrentUploads =>
        /\ last.status = 200 /\ last'.status = 200
        /\ Resolve(last'.output_path) \in DOMAIN files'
        /\ inodes'[files'[Resolve(last'.output_path)]] \in
               StoredForms(last.body) \cup StoredForms(last'.body)]_vars

\* The upload-sample request that completes in this step has stored its
\* complete content at p.
Replaces(p) ==
    /\ Completes
    /\ last'.op = "upload" /\ last'.status = 200
    /\ Resolve(last'.output_path) = p
    /\ inodes'[files'[p]] \in StoredForms(last'.body)

\* C14: no step of an upload-sample request, the step that suspends at the
\* await of the body included, leaves a stored sample <k>.wav empty or
\* partially written: after the step the sample that was stored before is
\* still there with its content, or it holds the complete content of an
\* upload that has succeeded; in particular an upload that ends in a 500
\* leaves it as it was, and a generate-audio request that resolves k at
\* any time reads a complete sample.
C14_AtomicReplacement ==
    [][UploadStep =>
        \A n \in Names :
            LET p == StoredSample(n) IN
            /\ (p \in DOMAIN files /\ inodes[files[p]] # <<>>) =>
                   /\ p \in DOMAIN files'
                   /\ (inodes'[files'[p]] = inodes[files[p]] \/ Replaces(p))
            /\ p \in DOMAIN files' => inodes'[files'[p]] # <<>>]_vars

\* The file at p is not after the step what it was before: created,
\* removed, replaced or written.
Touched(p) ==
    \/ p \notin DOMAIN files
    \/ p \notin DOMAIN files'
    \/ files'[p] # files[p]
    \/ inodes'[files'[p]] # inodes[files[p]]

\* C15: whatever the sample name and the upload filename, every file that
\* a step of upload-sample creates, writes, renames or removes lies
\* directly in the samples directory; the staging path of a
\* request that got past its open and the store path of a request that
\* succeeded name files directly in the samples directory; and a request
\* whose staging path names no such file fails without touching a file.
C15_UploadConfined ==
    [][UploadStep =>
        /\ \A p \in (DOMAIN files) \cup (DOMAIN files') :
               Touched(p) => InDir(p, SamplesDirPath)
        /\ \A r \in {req'[i] : i \in Slots} \cup {last'} :
               /\ (r.op = "upload" /\ r.pc = "await") =>
                      InDir(Resolve(r.temp_path), SamplesDirPath)
               /\ (r.op = "upload" /\ r.status = 200) =>
                      InDir(Resolve(r.output_path), SamplesDirPath)
        /\ (RunsWhole /\ last'.op = "upload") =>
               (last'.status = 500 /\ files' = files /\ inodes' = inodes)]_vars

====
